---- MODULE Spec2Model ----
(***************************************************************************)
(* A model of the VCard-Tracker data access layer                          *)
(* (src/src/vcard_tracker/database/manager.py, DatabaseManager) over the   *)
(* relational schema of src/src/vcard_tracker/database/schema.py.          *)
(*                                                                         *)
(* Encodings used throughout:                                              *)
(*   - a Python str is a sequence of atoms; an atom is a one-character     *)
(*     string or an opaque piece of text (a name, a formatted timestamp);  *)
(*   - an Optional[str] is a sequence of length at most one: <<>> is None  *)
(*     and <<s>> is the string s (so << <<>> >> is the empty string "");   *)
(*   - an Optional[Acquisition] is the member name or "None";              *)
(*   - a datetime is a positive integer (an instant), NoDate is None;      *)
(*   - the collection_status table is kept per card: status[c] is the      *)
(*     sequence of rows whose card_id is c, in rowid order.  The scalar    *)
(*     relationship Card.collection_status loads the first of them.        *)
(*   - file is the JSON document at the path export_collection writes to;  *)
(*     a document is its top-level shape and the entries under "cards".   *)
(***************************************************************************)
EXTENDS Integers, Sequences, FiniteSets, TLC

VARIABLES cards, status, last, ops, file

vars == <<cards, status, last, ops, file>>

\* ------------------------------------------------------------------ bounds
MaxOps == 2        \* number of manager calls in one run
MaxTime == 2       \* instants the wall clock can show
MaxList == 2       \* length of the list passed to bulk_update_collection
MaxDigits == 4     \* digits after the dash in a candidate card number
MaxLimit == 3      \* largest limit passed to get_recent_acquisitions
MaxCalls == 3      \* number of calls in one run with export and import
MaxLevel == 11     \* largest power level a CharacterCard is constructed with

\* --------------------------------------------------------------- constants
NoDate == 0
TicksPerMinute == 2

Times == 1..MaxTime

AcquisitionNames == {"PULLED", "TRADED", "GIFTED"}

NoneStr == <<>>
Some(s) == <<s>>

\* Python truthiness of an Optional[str]: None and "" are falsy.
Truthy(o) == o # <<>> /\ o[1] # <<>>

\* ------------------------------------------------------------- the catalog
N106 == <<"1", "0", "6">>
N107 == <<"1", "0", "7">>
NBT001 == <<"B", "T", "-", "0", "0", "1">>
NSP001 == <<"S", "P", "-", "0", "0", "1">>
NSH001 == <<"S", "H", "-", "0", "0", "1">>
NPR069 == <<"P", "R", "-", "0", "6", "9">>
NotReal == <<"N", "O", "T", "-", "R", "E", "A", "L">>

\* A row of cards together with the detail row that hangs off it.
CardRow(number, name, type, details, level, topper) ==
    [card_number |-> number, name |-> name, card_type |-> type,
     details |-> details, power_level |-> level, is_box_topper |-> topper]

\* The catalog the manager calls run against: two variants of one character
\* (a level 8 card and the box topper) and a promo card.
CatalogA ==
    << CardRow(N106, "FREAM", "CHARACTER", "character", 8, FALSE),
       CardRow(NBT001, "FREAM", "CHARACTER", "character", 0, TRUE),
       CardRow(NPR069, "NSFW FREAM", "CHARACTER", "character", 9, FALSE) >>

\* A catalog with a support and a shield card, stored in another order.
CatalogB ==
    << CardRow(NSH001, "FIRE SHIELD", "SHIELD", "elemental", 0, FALSE),
       CardRow(NSP001, "HEALER", "SUPPORT", "support", 0, FALSE),
       CardRow(N107, "FREAM", "CHARACTER", "character", 9, FALSE) >>

Catalogs == {CatalogA, CatalogB}

\* A database whose cards table is empty.
EmptyCatalog == <<>>

Elements == {"FIRE", "WATER", "GRASS", "ELECTRIC", "PLATINUM"}
CardTypes == {"CHARACTER", "SUPPORT", "GUARDIAN", "SHIELD"}

\* The element column of the detail row of a card, "None" for NULL: a box
\* topper is stored with no element, a support card has no element column.
card_element(row) ==
    IF row.is_box_topper \/ row.details = "support" THEN "None" ELSE "FIRE"

CardIds == 1..Len(cards)

CatalogNumbers == {cards[c].card_number : c \in CardIds}

\* The card numbers a caller passes: every catalog number and one that is
\* not in the catalog.
Numbers == CatalogNumbers \cup {NotReal}

Range(s) == {s[i] : i \in 1..Len(s)}

\* ------------------------------------------------------ collection_status
\* CollectionStatus(): the column defaults of the schema.
NewStatus ==
    [is_collected |-> FALSE, is_holo |-> FALSE, is_promo |-> FALSE,
     is_misprint |-> FALSE, acquisition |-> "None", date_acquired |-> NoDate,
     notes |-> NoneStr]

\* select(Card).where(Card.card_number == n), first row or None (0).
get_card(n) ==
    IF \E c \in CardIds : cards[c].card_number = n
    THEN CHOOSE c \in CardIds :
            /\ cards[c].card_number = n
            /\ \A d \in CardIds : cards[d].card_number = n => c <= d
    ELSE 0

\* if not card.collection_status: card.collection_status = CollectionStatus()
EnsureStatus(rows) == IF rows = <<>> THEN <<NewStatus>> ELSE rows

\* Every write goes to a CollectionStatus() made for it.
WriteStatus_new_row(rows, r) == <<r>> \o rows

\* Writes through card.collection_status go to the loaded (first) row.
WriteStatus(rows, r) == [EnsureStatus(rows) EXCEPT ![1] = r]

LoadedStatus(rows) == EnsureStatus(rows)[1]

\* What a call leaves in last: its name, arguments and result.
Call(op, ret, num, num2, list, flag, holo, acq, notes, date, times) ==
    [op |-> op, ret |-> ret, msg |-> "None", num |-> num, num2 |-> num2,
     list |-> list, flag |-> flag, holo |-> holo, acq |-> acq,
     notes |-> notes, date |-> date, times |-> times]

NoTimes == [c \in {} |-> 0]

\* The result of a single-card mutation: False when the card is not found.
found_ret_always(card) == TRUE

found_ret(card) == card # 0

\* ------------------------------------------------ update_collection_status
\* Every call overwrites acquisition and notes, supplied or not.
update_status_row_overwrite(row, is_collected, is_holo, acquisition, notes) ==
    [row EXCEPT !.is_collected = is_collected, !.is_holo = is_holo,
                !.acquisition = acquisition, !.notes = notes]

update_status_row(row, is_collected, is_holo, acquisition, notes) ==
    LET r1 == [row EXCEPT !.is_collected = is_collected, !.is_holo = is_holo]
        r2 == IF acquisition # "None"
              THEN [r1 EXCEPT !.acquisition = acquisition] ELSE r1
    IN  IF Truthy(notes) THEN [r2 EXCEPT !.notes = notes] ELSE r2

update_collection_status(card_number, is_collected, is_holo, acquisition, notes) ==
    /\ ops < MaxOps
    /\ LET card == get_card(card_number) IN
        /\ status' =
              IF card = 0 THEN status
              ELSE [status EXCEPT ![card] =
                      WriteStatus(@, update_status_row(LoadedStatus(@),
                          is_collected, is_holo, acquisition, notes))]
        /\ last' = Call("update_collection_status", found_ret(card), card_number,
                        <<>>, <<>>, is_collected, is_holo, acquisition, notes,
                        NoDate, NoTimes)
    /\ ops' = ops + 1
    /\ UNCHANGED <<cards, file>>

\* ------------------------------------------------- bulk_update_collection
\* select(Card).where(Card.card_number.in_(card_numbers)): every card whose
\* number is listed.
cards_in(card_numbers) ==
    {c \in CardIds : cards[c].card_number \in Range(card_numbers)}

\* The cards for which the loop reads the clock: date_acquired is set only
\* when the card is being marked collected and has no date yet.
needs_date(card_numbers, is_collected) ==
    {c \in cards_in(card_numbers) :
        is_collected /\ LoadedStatus(status[c]).date_acquired = NoDate}

\* The date is stamped on every update that marks the card collected.
bulk_status_row_redate(row, is_collected, now) ==
    IF is_collected
    THEN [row EXCEPT !.is_collected = TRUE, !.date_acquired = now]
    ELSE [row EXCEPT !.is_collected = FALSE]

bulk_status_row(row, is_collected, now) ==
    LET r1 == [row EXCEPT !.is_collected = is_collected]
    IN  IF is_collected /\ r1.date_acquired = NoDate
        THEN [r1 EXCEPT !.date_acquired = now] ELSE r1

\* The value bulk_update_collection returns when no statement raised.
bulk_ret(card_numbers) == TRUE

bulk_update_collection(card_numbers, is_collected, nowOf) ==
    /\ ops < MaxOps
    /\ status' = [c \in CardIds |->
                    IF c \in cards_in(card_numbers)
                    THEN WriteStatus(status[c],
                            bulk_status_row(LoadedStatus(status[c]), is_collected,
                                IF c \in DOMAIN nowOf THEN nowOf[c] ELSE NoDate))
                    ELSE status[c]]
    /\ last' = Call("bulk_update_collection", bulk_ret(card_numbers), <<>>,
                    <<>>, card_numbers, is_collected, FALSE, "None", NoneStr,
                    NoDate, nowOf)
    /\ ops' = ops + 1
    /\ UNCHANGED <<cards, file>>

\* ------------------------------------------------------------ add_card_note
\* dt.now().strftime("%Y-%m-%d %H:%M"): the instant cut down to its minute.
strftime_minute(t) == "t" \o ToString(t \div TicksPerMinute)

\* f"[{timestamp}] {note}"
stamped(t, text) == <<"[", strftime_minute(t), "]", " ">> \o text

\* The stamped note takes the place of the notes already stored.
add_note_row_fresh(row, note, now) ==
    [row EXCEPT !.notes = Some(stamped(now, note))]

add_note_row(row, note, now) ==
    IF Truthy(row.notes)
    THEN [row EXCEPT !.notes = Some(row.notes[1] \o <<"\n">> \o stamped(now, note))]
    ELSE [row EXCEPT !.notes = Some(stamped(now, note))]

add_card_note(card_number, note, now) ==
    /\ ops < MaxOps
    /\ LET card == get_card(card_number) IN
        /\ status' =
              IF card = 0 THEN status
              ELSE [status EXCEPT ![card] =
                      WriteStatus(@, add_note_row(LoadedStatus(@), note, now))]
        /\ last' = Call("add_card_note", found_ret(card), card_number, <<>>,
                        <<>>, FALSE, FALSE, "None", Some(note), now, NoTimes)
    /\ ops' = ops + 1
    /\ UNCHANGED <<cards, file>>

\* ---------------------------------------------------- update_card_condition
update_card_condition(card_number, is_misprint) ==
    /\ ops < MaxOps
    /\ LET card == get_card(card_number) IN
        /\ status' =
              IF card = 0 THEN status
              ELSE [status EXCEPT ![card] =
                      WriteStatus(@, [LoadedStatus(@) EXCEPT
                                        !.is_misprint = is_misprint])]
        /\ last' = Call("update_card_condition", found_ret(card), card_number,
                        <<>>, <<>>, is_misprint, FALSE, "None", NoneStr, NoDate,
                        NoTimes)
    /\ ops' = ops + 1
    /\ UNCHANGED <<cards, file>>

\* ------------------------------------------------------------- record_trade
RECURSIVE by_id(_)
\* The rows of a query without ORDER BY, as the table scan returns them:
\* in ascending id.
by_id(S) ==
    IF S = {} THEN <<>>
    ELSE LET c == CHOOSE x \in S : \A y \in S : x <= y
         IN  <<c>> \o by_id(S \ {c})

\* select(Card).where(Card.card_number.in_([acquired_card, traded_card])).all()
trade_rows(acquired_card, traded_card) ==
    by_id(cards_in(<<acquired_card, traded_card>>))

acquired_row(row, traded, trade_date) ==
    [row EXCEPT !.is_collected = TRUE,
                !.acquisition = "TRADED",
                !.date_acquired = trade_date,
                !.notes = Some(stamped(trade_date,
                    <<"Acquired in trade for ", traded.name, " (">>
                    \o traded.card_number \o <<")">>))]

traded_row(row, acquired, trade_date) ==
    [row EXCEPT !.is_collected = FALSE,
                !.notes = Some(stamped(trade_date,
                    <<"Traded for ", acquired.name, " (">>
                    \o acquired.card_number \o <<")">>))]

\* "acquired, traded = rows" raises ValueError unless there are exactly two
\* rows; the handler rolls back and the call returns False.
trade_ret(rows) == Len(rows) = 2

\* A lone row is taken for the acquired card and written.
trade_status_partial(st, rows, trade_date) ==
    IF Len(rows) = 1
    THEN [st EXCEPT ![rows[1]] =
            WriteStatus(@, [LoadedStatus(@) EXCEPT !.is_collected = TRUE,
                                !.acquisition = "TRADED",
                                !.date_acquired = trade_date])]
    ELSE IF Len(rows) # 2 THEN st
    ELSE [c \in CardIds |->
            IF c = rows[1]
            THEN WriteStatus(st[c],
                    acquired_row(LoadedStatus(st[c]), cards[rows[2]], trade_date))
            ELSE IF c = rows[2]
            THEN WriteStatus(st[c],
                    traded_row(LoadedStatus(st[c]), cards[rows[1]], trade_date))
            ELSE st[c]]

trade_status(st, rows, trade_date) ==
    IF Len(rows) # 2 THEN st
    ELSE [c \in CardIds |->
            IF c = rows[1]
            THEN WriteStatus(st[c],
                    acquired_row(LoadedStatus(st[c]), cards[rows[2]], trade_date))
            ELSE IF c = rows[2]
            THEN WriteStatus(st[c],
                    traded_row(LoadedStatus(st[c]), cards[rows[1]], trade_date))
            ELSE st[c]]

\* trade_date is the instant the caller gave, or the one dt.now() returned
\* when the caller gave None.
record_trade(acquired_card, traded_card, trade_date) ==
    /\ ops < MaxOps
    /\ LET rows == trade_rows(acquired_card, traded_card) IN
        /\ status' = trade_status(status, rows, trade_date)
        /\ last' = Call("record_trade", trade_ret(rows), acquired_card,
                        traded_card, <<>>, FALSE, FALSE, "None", NoneStr,
                        trade_date, NoTimes)
    /\ ops' = ops + 1
    /\ UNCHANGED <<cards, file>>

\* ------------------------------------------------------ validate_card_number
Digits == {"0", "1", "2", "3", "4", "5", "6", "7", "8", "9"}
Letters == {"A", "B", "C", "D", "E", "F", "G", "H", "I", "J", "K", "L", "M",
            "N", "O", "P", "Q", "R", "S", "T", "U", "V", "W", "X", "Y", "Z"}

\* The entries of the patterns dict: prefix, number of digits, and whether a
\* letter [A-Z] follows the digits.
patterns ==
    { [prefix |-> <<"C", "H">>, digits |-> 3, letter |-> TRUE],
      [prefix |-> <<"S", "P">>, digits |-> 3, letter |-> TRUE],
      [prefix |-> <<"G", "D">>, digits |-> 3, letter |-> FALSE],
      [prefix |-> <<"S", "H">>, digits |-> 3, letter |-> FALSE],
      [prefix |-> <<"P", "R">>, digits |-> 4, letter |-> FALSE] }

\* re.match(r"^XX-\d{n}[A-Z]?$", s); "$" also matches before one trailing
\* newline.
re_match(p, s) ==
    LET n == 3 + p.digits + (IF p.letter THEN 1 ELSE 0) IN
    /\ Len(s) = n \/ (Len(s) = n + 1 /\ s[n + 1] = "\n")
    /\ s[1] = p.prefix[1]
    /\ s[2] = p.prefix[2]
    /\ s[3] = "-"
    /\ \A i \in 4..(3 + p.digits) : s[i] \in Digits
    /\ p.letter => s[n] \in Letters

valid_format(s) == \E p \in patterns : re_match(p, s)

\* The (is_valid, error_message) pair; an absent message is "None".
validate_result(card_number) ==
    IF card_number = <<>>
    THEN <<FALSE, "Card number cannot be empty">>
    ELSE IF ~valid_format(card_number)
    THEN <<FALSE, "Invalid card number format">>
    ELSE IF get_card(card_number) # 0
    THEN <<FALSE, "Card number already exists">>
    ELSE <<TRUE, "None">>

validate_card_number(card_number) ==
    /\ last' = [Call("validate_card_number", validate_result(card_number)[1],
                     card_number, <<>>, <<>>, FALSE, FALSE, "None", NoneStr,
                     NoDate, NoTimes)
                EXCEPT !.msg = validate_result(card_number)[2]]
    /\ UNCHANGED <<cards, status, ops, file>>

\* ------------------------------------------------------------------ queries
\* select(Card).join(Card.collection_status)
\*     .where(CollectionStatus.is_collected == True)
get_collected_cards ==
    {c \in CardIds : \E i \in 1..Len(status[c]) : status[c][i].is_collected}

\* An inner join: cards without a status row drop out.
get_missing_cards_inner ==
    {c \in CardIds : \E i \in 1..Len(status[c]) : ~status[c][i].is_collected}

\* select(Card).outerjoin(Card.collection_status)
\*     .where(or_(is_collected.is_(None), is_collected == False))
get_missing_cards ==
    {c \in CardIds :
        \/ status[c] = <<>>
        \/ \E i \in 1..Len(status[c]) : ~status[c][i].is_collected}

\* select(Card.name).join(Card.character_details).distinct()
character_names ==
    {cards[c].name : c \in {d \in CardIds : cards[d].details = "character"}}

\* select(Card).join(Card.character_details).where(Card.name == name)
variants(name) ==
    {c \in CardIds : cards[c].details = "character" /\ cards[c].name = name}

\* variant.collection_status and variant.collection_status.is_collected
variant_collected(c) == status[c] # <<>> /\ status[c][1].is_collected

\* any(...) in place of all(...).
any_collected(vs) == \E c \in vs : variant_collected(c)

\* all(... for variant in variants)
all_collected(vs) == \A c \in vs : variant_collected(c)

get_complete_sets == {name \in character_names : all_collected(variants(name))}

\* ----------------------------------------------------- get_collection_stats
\* The count of the joined rows, collected or not.
total_collected_all_rows ==
    Cardinality(UNION {{<<c, i>> : i \in 1..Len(status[c])} : c \in CardIds})

\* select(func.count()).select_from(Card).join(Card.collection_status)
\*     .where(CollectionStatus.is_collected == True)
total_collected ==
    Cardinality({p \in UNION {{<<c, i>> : i \in 1..Len(status[c])} :
                                 c \in CardIds} :
                    status[p[1]][p[2]].is_collected})

\* The same count with Card.card_type == card_type added to the filter.
collected_of_type(card_type) ==
    Cardinality({p \in UNION {{<<c, i>> : i \in 1..Len(status[c])} :
                                 c \in CardIds} :
                    /\ cards[p[1]].card_type = card_type
                    /\ status[p[1]][p[2]].is_collected})

\* (total_collected / total_cards * 100) if total_cards else 0, kept as the
\* exact fraction num / den.
completion_percentage(collected, total) ==
    IF total # 0 THEN [num |-> collected * 100, den |-> total]
    ELSE [num |-> 0, den |-> 1]

get_collection_stats ==
    [total_collected |-> total_collected,
     total_cards |-> Len(cards),
     completion_percentage |-> completion_percentage(total_collected, Len(cards)),
     collected_by_type |-> [t \in CardTypes |-> collected_of_type(t)]]

\* ----------------------------------------------------- get_cards_by_element
\* The first where(): character cards whose character_details row has the
\* element, guardian and shield cards whose elemental_details row has it.
has_element(c, element) ==
    \/ /\ cards[c].card_type = "CHARACTER"
       /\ cards[c].details = "character"
       /\ card_element(cards[c]) = element
    \/ /\ cards[c].card_type \in {"GUARDIAN", "SHIELD"}
       /\ cards[c].details = "elemental"
       /\ card_element(cards[c]) = element

\* The second where(), which is ANDed to the first.
support_filter(c, include_support) ==
    IF include_support
    THEN cards[c].card_type = "SUPPORT" \/ cards[c].card_type # "SUPPORT"
    ELSE cards[c].card_type # "SUPPORT"

get_cards_by_element(element, include_support) ==
    {c \in CardIds : has_element(c, element)
                        /\ support_filter(c, include_support)}

\* ---------------------------------------------------- get_duplicate_entries
\* by_name: the elements seen under each character name.
by_name(name) ==
    {card_element(cards[c]) :
        c \in {d \in CardIds : /\ cards[d].card_type = "CHARACTER"
                                /\ cards[d].details = "character"
                                /\ cards[d].name = name}}

\* The names recorded under mismatched_elements.
mismatched_elements ==
    {name \in {cards[c].name : c \in CardIds} : Cardinality(by_name(name)) > 1}

\* [e.name for e in elements] and c.character_details.element.name raise
\* AttributeError when an element of a recorded name is None.
duplicates_raises == \E name \in mismatched_elements : "None" \in by_name(name)

\* The call either raises or returns its report.
get_duplicate_entries ==
    IF duplicates_raises THEN [raised |-> TRUE, mismatched_elements |-> {}]
    ELSE [raised |-> FALSE, mismatched_elements |-> mismatched_elements]

\* ------------------------------------------------------- the JSON document
\* A document is its top-level shape and the entries under "cards":
\*   "nofile"  nothing readable at the path (open or json.load raises),
\*   "missing" an object without a "cards" key,
\*   "null"    an object whose "cards" value is null,
\*   "list"    an object whose "cards" value is the list of entries.
Document(top, entries) == [top |-> top, cards |-> entries]

NoFile == Document("nofile", <<>>)

\* An object under "cards".  date_acquired is None or the ISO text,
\* acquisition the member name or "None", notes <<>> when the key is absent.
Entry(number, name, date, holo, misprint, acq, notes) ==
    [object |-> TRUE, card_number |-> number, name |-> name,
     date_acquired |-> date, is_holo |-> holo, is_misprint |-> misprint,
     acquisition |-> acq, notes |-> notes]

\* A JSON string where an object is expected.
TextEntry == [Entry(<<>>, "", NoneStr, FALSE, FALSE, "None", NoneStr)
                 EXCEPT !.object = FALSE]

\* datetime.isoformat(): the text of an instant.
isoformat(t) == <<"iso", ToString(t)>>

\* datetime.fromisoformat(): the instant of a text, NoDate standing for the
\* ValueError raised on a text that is not ISO.
fromisoformat(text) ==
    IF \E t \in Times : isoformat(t) = text
    THEN CHOOSE t \in Times : isoformat(t) = text
    ELSE NoDate

\* What an export, import or backup call leaves in last.
IOCall(op, ret, strategy, doc, stats, steps) ==
    [op |-> op, ret |-> ret, strategy |-> strategy, doc |-> doc,
     stats |-> stats, steps |-> steps]

ZeroStats == [imported |-> 0, skipped |-> 0, failed |-> 0, updated |-> 0]

NoSteps == [include_images |-> FALSE, failing |-> "none"]

\* -------------------------------------------------------- export_collection
\* Every card that has a status row, collected or not.
export_rows_all == by_id({c \in CardIds : status[c] # <<>>})

\* select(Card).join(Card.collection_status)
\*     .where(CollectionStatus.is_collected == True), in table order.
export_rows ==
    by_id({c \in CardIds : \E i \in 1..Len(status[c]) : status[c][i].is_collected})

\* card_data of one collected card.
export_entry(c, include_notes) ==
    LET row == LoadedStatus(status[c]) IN
        Entry(cards[c].card_number, cards[c].name,
              IF row.date_acquired # NoDate
              THEN Some(isoformat(row.date_acquired)) ELSE NoneStr,
              row.is_holo, row.is_misprint, row.acquisition,
              IF include_notes /\ Truthy(row.notes) THEN row.notes ELSE NoneStr)

export_data(include_notes) ==
    Document("list", [k \in 1..Len(export_rows) |->
                          export_entry(export_rows[k], include_notes)])

\* The write either succeeds or raises, which the call reports as False.
export_collection(include_notes, write_ok) ==
    /\ ops < MaxCalls
    /\ file' = IF write_ok THEN export_data(include_notes) ELSE file
    /\ last' = IOCall("export_collection", write_ok, "None",
                      IF write_ok THEN export_data(include_notes) ELSE NoFile,
                      ZeroStats, NoSteps)
    /\ ops' = ops + 1
    /\ UNCHANGED <<cards, status>>

\* -------------------------------------------------------- import_collection
MergeStrategies == {"skip", "update", "replace"}

Bump(stats, counter) == [stats EXCEPT ![counter] = @ + 1]

\* No strategy leaves a collected card alone.
skips_never(strategy) == FALSE

\* if merge_strategy == "skip": stats["skipped"] += 1; continue
skips(strategy) == strategy = "skip"

\* The counter an entry that is not skipped adds to: "updated" for a
\* collected card under "update", none for a collected card under any other
\* strategy, "imported" for a card that is not collected.
counted(stats, collected, strategy) ==
    IF collected
    THEN IF strategy = "update" THEN Bump(stats, "updated") ELSE stats
    ELSE Bump(stats, "imported")

\* Acquisition[name] raises KeyError on a name that is no member.
acquisition_raises(e) ==
    e.acquisition # "None" /\ e.acquisition \notin AcquisitionNames

date_raises(e) ==
    Truthy(e.date_acquired) /\ fromisoformat(e.date_acquired[1]) = NoDate

\* The assignments to the status row, in the order of the code, up to the
\* one that raises.
import_row(row, e) ==
    LET r1 == [row EXCEPT !.is_collected = TRUE, !.is_holo = e.is_holo,
                          !.is_misprint = e.is_misprint]
        r2 == IF Truthy(e.date_acquired)
              THEN [r1 EXCEPT !.date_acquired = fromisoformat(e.date_acquired[1])]
              ELSE r1
        r3 == IF e.acquisition # "None"
              THEN [r2 EXCEPT !.acquisition = e.acquisition] ELSE r2
        r4 == IF e.notes # <<>> THEN [r3 EXCEPT !.notes = e.notes] ELSE r3
    IN  IF date_raises(e) THEN r1
        ELSE IF acquisition_raises(e) THEN r2
        ELSE r4

\* One pass of the loop over import_data["cards"].  acc holds the rows of
\* the session, the counters, and whether an exception left the loop.
import_entry(acc, e, strategy) ==
    IF ~e.object THEN [acc EXCEPT !.aborted = TRUE]
    ELSE LET card == get_card(e.card_number) IN
        IF card = 0 THEN [acc EXCEPT !.stats = Bump(@, "failed")]
        ELSE LET rows == acc.st[card]
                 collected == rows # <<>> /\ rows[1].is_collected
             IN  IF collected /\ skips(strategy)
                 THEN [acc EXCEPT !.stats = Bump(@, "skipped")]
                 ELSE [acc EXCEPT
                         !.st[card] = WriteStatus(rows,
                                         import_row(LoadedStatus(rows), e)),
                         !.stats =
                            IF date_raises(e) \/ acquisition_raises(e)
                            THEN Bump(counted(@, collected, strategy), "failed")
                            ELSE counted(@, collected, strategy)]

RECURSIVE import_loop(_, _, _)
import_loop(acc, entries, strategy) ==
    IF entries = <<>> \/ acc.aborted THEN acc
    ELSE import_loop(import_entry(acc, Head(entries), strategy),
                     Tail(entries), strategy)

\* session.query(CollectionStatus).delete(); session.commit()
deleted_all == [c \in CardIds |-> <<>>]

\* The delete runs whatever the strategy.
before_loop_deleting(strategy) == deleted_all

\* The rows that are committed before the loop starts.
before_loop(strategy) == IF strategy = "replace" THEN deleted_all ELSE status

\* The call reads the document doc.  It returns its counters on every path;
\* ret tells whether it reached its final commit.
import_collection(doc, strategy) ==
    /\ ops < MaxCalls
    /\ LET acc == IF doc.top = "list"
                  THEN import_loop([st |-> before_loop(strategy),
                                    stats |-> ZeroStats, aborted |-> FALSE],
                                   doc.cards, strategy)
                  ELSE [st |-> status, stats |-> ZeroStats, aborted |-> TRUE]
       IN  /\ status' = IF doc.top \in {"nofile", "missing"} THEN status
                        ELSE IF acc.aborted THEN before_loop(strategy)
                        ELSE acc.st
           /\ last' = IOCall("import_collection", ~acc.aborted, strategy, doc,
                             acc.stats, NoSteps)
    /\ ops' = ops + 1
    /\ UNCHANGED <<cards, file>>

\* ---------------------------------------------------------- backup_database
\* The call returns False when the copy of the database file or of the
\* image directory raises; the result of export_collection is dropped.
backup_ret(failing) == failing \notin {"copy", "images"}

\* failing names the step that fails: "none", "copy", "images" or "export".
backup_database(include_images, failing) ==
    /\ ops < MaxCalls
    /\ last' = IOCall("backup_database", backup_ret(failing), "None", NoFile,
                      ZeroStats,
                      [include_images |-> include_images, failing |-> failing])
    /\ ops' = ops + 1
    /\ UNCHANGED <<cards, status, file>>

\* ------------------------------------------------ verify_database_integrity
\* select(Card).where(Card.card_type == CardType.CHARACTER)
\*     .join(Card.character_details)
character_cards ==
    {c \in CardIds : cards[c].card_type = "CHARACTER"
                       /\ cards[c].details = "character"}

\* constraint_issues of one character card; power_level 0 stands for None.
constraint_issues(c) ==
    {issue \in {"Invalid power level", "Level 10 card must be holo",
                "Box topper should not have power level"} :
        \/ /\ issue = "Invalid power level"
           /\ cards[c].power_level \notin {8, 9, 10}
        \/ /\ issue = "Level 10 card must be holo"
           /\ cards[c].power_level = 10
           /\ status[c] # <<>>
           /\ ~status[c][1].is_holo
        \/ /\ issue = "Box topper should not have power level"
           /\ cards[c].is_box_topper
           /\ cards[c].power_level # 0}

\* The cards reported under constraint_violations.
constraint_violations == {c \in character_cards : constraint_issues(c) # {}}

\* ------------------------------------------------------- get_filtered_cards
\* get_filtered_cards(is_collected=flag) with no other filter:
\* select(Card).join(Card.collection_status)
\*     .where(CollectionStatus.is_collected == flag)
get_filtered_cards(is_collected) ==
    {c \in CardIds :
        \E i \in 1..Len(status[c]) : status[c][i].is_collected = is_collected}

\* -------------------------------------------------- get_recent_acquisitions
\* select(Card).join(Card.collection_status): one result row per status
\* row, <<card id, position of the status row>>.
joined_rows == UNION {{<<c, i>> : i \in 1..Len(status[c])} : c \in CardIds}

\* The joined rows whatever their is_collected.
recent_rows_unfiltered == joined_rows

\* .where(CollectionStatus.is_collected == True)
recent_rows == {p \in joined_rows : status[p[1]][p[2]].is_collected}

\* The sort key of a joined row; NULL sorts below every date in SQLite.
row_date(p) == status[p[1]][p[2]].date_acquired

\* .order_by(CollectionStatus.date_acquired.desc()): every order of the rows
\* in which the dates never rise; rows with equal dates come in any order.
RECURSIVE order_by_desc(_)
order_by_desc(S) ==
    IF S = {} THEN {<<>>}
    ELSE UNION {{<<p>> \o rest : rest \in order_by_desc(S \ {p})} :
                  p \in {q \in S : \A r \in S : row_date(q) >= row_date(r)}}

\* .limit(limit), and the cards of the rows that are left.
limited(o, limit) ==
    [k \in 1..(IF limit < Len(o) THEN limit ELSE Len(o)) |-> o[k][1]]

\* The lists get_recent_acquisitions(limit) can return.
get_recent_acquisitions(limit) ==
    {limited(o, limit) : o \in order_by_desc(recent_rows)}

\* ------------------------------------------------------------ CharacterCard
\* CharacterCard.__post_init__: the message of the ValueError it raises, or
\* "None" when the object is constructed.  power_level 0 and element "None"
\* stand for None; attributes tells whether age, height, weight,
\* elemental_strength and elemental_weakness are given.
post_init(power_level, element, attributes, is_box_topper, is_mascott) ==
    IF is_box_topper
    THEN IF power_level # 0 \/ attributes
         THEN "Box topper cards cannot have gameplay attributes"
         ELSE "None"
    ELSE IF power_level = 0 \/ element = "None" \/ ~attributes
         THEN "Regular character cards must have all gameplay attributes"
         ELSE IF is_mascott /\ power_level # 1
         THEN "Mascot cards must have power level 1"
         ELSE IF ~is_mascott /\ power_level \notin {8, 9, 10}
         THEN "Regular character cards must have power level 8, 9, or 10"
         ELSE "None"

\* Constructing a CharacterCard: ret tells whether the object exists.
CharacterCard(power_level, element, attributes, is_box_topper, is_mascott, is_holo) ==
    /\ last' = [op |-> "CharacterCard",
                ret |-> post_init(power_level, element, attributes,
                                  is_box_topper, is_mascott) = "None",
                msg |-> post_init(power_level, element, attributes,
                                  is_box_topper, is_mascott),
                power_level |-> power_level, element |-> element,
                attributes |-> attributes, is_box_topper |-> is_box_topper,
                is_mascott |-> is_mascott, is_holo |-> is_holo]
    /\ UNCHANGED <<cards, status, ops, file>>

\* ------------------------------------------------------------------- inputs
\* The limits tried for get_recent_acquisitions.
LimitInputs == 0..MaxLimit
NoteInputs == {NoneStr, Some(<<>>), Some(<<"first pack">>)}
NoteTexts == {<<"mint">>}
\* The acquisition arguments tried: None and one method.
AcquisitionInputs == {"None", "PULLED"}
\* is_holo is left at the default of the signature.
HoloInputs == {FALSE}

\* The clock readings of one bulk_update_collection call: one per card that
\* needs a date, taken in the order of the loop, none earlier than the one
\* before it.
clock_readings(S) ==
    {f \in [S -> Times] : \A c \in S, d \in S : c < d => f[c] <= f[d]}

\* Lists of at most MaxList card numbers.  The list only ever feeds in_(),
\* which ignores order and repetition, so one list per set of numbers is
\* tried: catalog numbers in catalog order, then the unknown one.
number_at(i) == IF i <= Len(cards) THEN cards[i].card_number ELSE NotReal

list_of(S) == [k \in 1..Cardinality(S) |-> number_at(by_id(S)[k])]

NumberLists ==
    {list_of(S) : S \in {T \in SUBSET (1..(Len(cards) + 1)) :
                              Cardinality(T) <= MaxList}}

\* The documents written by hand that import_collection is given: one
\* without a "cards" key, one whose "cards" is null, one naming the first
\* card, an unknown number and the second card, one with a string behind an
\* entry, and one whose date is not ISO text.
GoodEntry(i, holo, acq) ==
    Entry(number_at(i), "any", Some(isoformat(1)), holo, FALSE, acq,
          Some(<<"from file">>))

ImportDocs ==
    {Document("missing", <<>>),
     Document("null", <<>>),
     Document("list", <<GoodEntry(1, TRUE, "GIFTED"),
                        GoodEntry(Len(cards) + 1, FALSE, "None"),
                        GoodEntry(2, FALSE, "None")>>),
     Document("list", <<GoodEntry(1, TRUE, "GIFTED"), TextEntry>>),
     Document("list", <<[GoodEntry(2, TRUE, "PULLED") EXCEPT
                           !.date_acquired = Some(<<"yesterday">>)]>>)}

\* The steps of a backup that can fail; the images are copied only when
\* they are asked for.
BackupInputs ==
    {<<include_images, failing>> \in
        BOOLEAN \X {"none", "copy", "images", "export"} :
        failing = "images" => include_images}

\* Strings of k digits drawn from DigitInputs.
DigitInputs == {"0", "1"}
DigitStrings(k) == [1..k -> DigitInputs]

PrefixInputs == { <<"C", "H">>, <<"S", "P">>, <<"G", "D">>, <<"S", "H">>,
                  <<"B", "T">>, <<"P", "R">>, <<"M", "P">> }

\* Candidate card numbers: a prefix, a dash, two to MaxDigits digits and
\* possibly a letter or a newline after them.
Candidates ==
    {p \o <<"-">> \o d \o suf :
        p \in PrefixInputs,
        d \in UNION {DigitStrings(k) : k \in 2..MaxDigits},
        suf \in {<<>>, <<"A">>, <<"\n">>}}

ValidateInputs ==
    {<<>>, NotReal} \cup Candidates
    \cup UNION {{cat[i].card_number : i \in 1..Len(cat)} : cat \in Catalogs}

InitOn(catalogs) ==
    /\ cards \in catalogs
    /\ status = [c \in CardIds |-> <<>>]
    /\ last = Call("init", TRUE, <<>>, <<>>, <<>>, FALSE, FALSE, "None",
                   NoneStr, NoDate, NoTimes)
    /\ ops = 0
    /\ file = NoFile

Init == InitOn({CatalogA})

Next ==
    \/ \E n \in Numbers, ic \in BOOLEAN, ih \in HoloInputs,
          acq \in AcquisitionInputs, nt \in NoteInputs :
          update_collection_status(n, ic, ih, acq, nt)
    \/ \E l \in NumberLists, ic \in BOOLEAN :
          \E nowOf \in clock_readings(needs_date(l, ic)) :
             bulk_update_collection(l, ic, nowOf)
    \/ \E n \in Numbers, nt \in NoteTexts, now \in Times :
          add_card_note(n, nt, now)
    \/ \E n \in Numbers, mp \in BOOLEAN : update_card_condition(n, mp)
    \/ \E a \in Numbers, b \in Numbers, td \in Times : record_trade(a, b, td)

Spec == Init /\ [][Next]_vars

\* validate_card_number alone, over every catalog.
\* The queries over the catalog run against the empty database and both
\* catalogs, with the collection changed by the single-card and bulk updates.
InitCatalogs == InitOn({EmptyCatalog, CatalogA, CatalogB})

NextCatalogs ==
    \/ \E n \in Numbers, ic \in BOOLEAN, ih \in HoloInputs,
          acq \in AcquisitionInputs, nt \in NoteInputs :
          update_collection_status(n, ic, ih, acq, nt)
    \/ \E l \in NumberLists, ic \in BOOLEAN :
          \E nowOf \in clock_readings(needs_date(l, ic)) :
             bulk_update_collection(l, ic, nowOf)
    \/ \E n \in Numbers, mp \in BOOLEAN : update_card_condition(n, mp)

SpecCatalogs == InitCatalogs /\ [][NextCatalogs]_vars

\* Export, import and backup, on a collection built up by
\* update_collection_status calls that supply every field.
NextImport ==
    \/ \E n \in Numbers, ic \in BOOLEAN, ih \in HoloInputs,
          acq \in AcquisitionInputs \ {"None"},
          nt \in {x \in NoteInputs : Truthy(x)} :
          update_collection_status(n, ic, ih, acq, nt)
    \/ \E include_notes \in BOOLEAN, write_ok \in BOOLEAN :
          export_collection(include_notes, write_ok)
    \/ \E doc \in ImportDocs \cup {file}, strategy \in MergeStrategies :
          import_collection(doc, strategy)
    \/ \E b \in BackupInputs : backup_database(b[1], b[2])

SpecImport == Init /\ [][NextImport]_vars

\* The card model on its own: no database is involved.
PowerLevels == 0..MaxLevel

NextModels ==
    \E power_level \in PowerLevels, element \in {"None", "PLATINUM"},
       attributes \in BOOLEAN, is_box_topper \in BOOLEAN,
       is_mascott \in BOOLEAN, is_holo \in BOOLEAN :
       CharacterCard(power_level, element, attributes, is_box_topper,
                     is_mascott, is_holo)

SpecModels == InitOn({EmptyCatalog}) /\ [][NextModels]_vars

\* Every operation that writes status rows, import included, with the
\* clock held at one instant and the documents that hold a list.
RowTimes == {1}

NextRows ==
    \/ \E n \in Numbers, ic \in BOOLEAN, ih \in HoloInputs,
          acq \in AcquisitionInputs \ {"None"},
          nt \in {x \in NoteInputs : Truthy(x)} :
          update_collection_status(n, ic, ih, acq, nt)
    \/ \E l \in NumberLists, ic \in BOOLEAN, now \in RowTimes :
          bulk_update_collection(l, ic, [c \in needs_date(l, ic) |-> now])
    \/ \E n \in Numbers, nt \in NoteTexts, now \in RowTimes :
          add_card_note(n, nt, now)
    \/ \E n \in Numbers, mp \in BOOLEAN : update_card_condition(n, mp)
    \/ \E a \in Numbers, b \in Numbers, td \in RowTimes :
          record_trade(a, b, td)
    \/ \E doc \in {d \in ImportDocs : d.top = "list"},
          strategy \in MergeStrategies :
          import_collection(doc, strategy)

SpecRows == Init /\ [][NextRows]_vars

InitValidate == InitOn(Catalogs)

NextValidate == \E n \in ValidateInputs : validate_card_number(n)

SpecValidate == InitValidate /\ [][NextValidate]_vars
\* =================================================================== claims
NumbersOf(S) == {cards[c].card_number : c \in S}

\* "needle in notes": the needle occurs in the stored notes.
Contains(o, needle) ==
    /\ Truthy(o)
    /\ \E i \in 1..(Len(o[1]) - Len(needle) + 1) :
          SubSeq(o[1], i, i + Len(needle) - 1) = needle

\* C1: an update_collection_status call with acquisition=None leaves the
\* stored acquisition of the card as it was, and a call with notes None or
\* empty leaves the stored notes as they were.
C1_UnsuppliedFieldsKept ==
    [][\A c \in CardIds :
         ( /\ last'.op = "update_collection_status"
           /\ last'.ret
           /\ cards[c].card_number = last'.num
           /\ status[c] # <<>> )
         => /\ last'.acq = "None"
                => status'[c][1].acquisition = status[c][1].acquisition
            /\ ~Truthy(last'.notes)
                => status'[c][1].notes = status[c][1].notes]_vars

C1_Witness ==
    /\ last.op = "update_collection_status"
    /\ last.ret
    /\ last.acq = "None"
    /\ ~Truthy(last.notes)
    /\ status[get_card(last.num)][1].acquisition # "None"
    /\ Truthy(status[get_card(last.num)][1].notes)

\* C2: the numbers of get_missing_cards and of get_collected_cards are
\* disjoint and together make up the whole catalog.
C2_MissingCollectedPartition ==
    /\ NumbersOf(get_missing_cards) \cap NumbersOf(get_collected_cards) = {}
    /\ NumbersOf(get_missing_cards) \cup NumbersOf(get_collected_cards)
          = CatalogNumbers

C2_Witness ==
    /\ get_collected_cards # {}
    /\ \E c \in get_missing_cards : status[c] = <<>>
    /\ \E c \in get_missing_cards : status[c] # <<>>

C4_TradeSides ==
    ( /\ last.op = "record_trade"
      /\ last.ret
      /\ last.num # last.num2
      /\ get_card(last.num) # 0
      /\ get_card(last.num2) # 0 )
    => LET a == get_card(last.num)
           b == get_card(last.num2)
       IN  /\ status[a] # <<>>
           /\ status[a][1].is_collected
           /\ status[a][1].acquisition = "TRADED"
           /\ status[a][1].date_acquired = last.date
           /\ Contains(status[a][1].notes, last.num2)
           /\ status[b] # <<>>
           /\ ~status[b][1].is_collected
           /\ Contains(status[b][1].notes, last.num)

\* C5: record_trade with a card number that is not in the catalog returns
\* False and leaves every status row as it was.
C5_TradeFailsAtomically ==
    [][( /\ last'.op = "record_trade"
         /\ get_card(last'.num) = 0 \/ get_card(last'.num2) = 0 )
       => (~last'.ret /\ status' = status)]_vars

C5_Witness ==
    /\ last.op = "record_trade"
    /\ ~last.ret
    /\ get_card(last.num) # 0
    /\ get_card(last.num2) = 0
    /\ status[get_card(last.num)] # <<>>

\* C6: bulk_update_collection with a list holding a card number that is not
\* in the catalog returns False and leaves every status row as it was.
C6_BulkRejectsUnknown ==
    [][( /\ last'.op = "bulk_update_collection"
         /\ \E i \in 1..Len(last'.list) : get_card(last'.list[i]) = 0 )
       => (~last'.ret /\ status' = status)]_vars

\* C7: after a successful bulk_update_collection(L, True) every listed card
\* is collected with a date, and a date that was already stored is kept.
C7_BulkCollectsKeepsDate ==
    [][( /\ last'.op = "bulk_update_collection"
         /\ last'.ret
         /\ last'.flag )
       => \A c \in CardIds :
             cards[c].card_number \in Range(last'.list)
             => /\ status'[c] # <<>>
                /\ status'[c][1].is_collected
                /\ status'[c][1].date_acquired # NoDate
                /\ (status[c] # <<>> /\ status[c][1].date_acquired # NoDate)
                     => status'[c][1].date_acquired
                          = status[c][1].date_acquired]_vars

C7_Witness ==
    /\ last.op = "bulk_update_collection"
    /\ last.ret
    /\ last.flag
    /\ \E c \in cards_in(last.list) :
          /\ c \notin DOMAIN last.times
          /\ status[c][1].is_collected
          /\ status[c][1].date_acquired # NoDate
    /\ \E c \in cards_in(last.list) :
          /\ c \in DOMAIN last.times
          /\ status[c][1].date_acquired = last.times[c]

\* C8: update_collection_status, add_card_note and update_card_condition
\* called with a number that is not in the catalog return False and leave
\* every status row as it was.
C8_UnknownCardRejected ==
    [][( /\ last'.op \in {"update_collection_status", "add_card_note",
                          "update_card_condition"}
         /\ get_card(last'.num) = 0 )
       => (~last'.ret /\ status' = status)]_vars

C8_Witness ==
    /\ last.op = "add_card_note"
    /\ get_card(last.num) = 0
    /\ ~last.ret
    /\ \E c \in CardIds : status[c] # <<>>

\* C9: validate_card_number of a number that is in the catalog returns
\* (False, "Card number already exists").
C9_ExistingNumberRejected ==
    (last.op = "validate_card_number" /\ get_card(last.num) # 0)
    => (~last.ret /\ last.msg = "Card number already exists")

\* The uniform format: one of the seven prefixes, a dash, three digits.
uniform_format(s) ==
    /\ Len(s) = 6
    /\ <<s[1], s[2]>> \in PrefixInputs
    /\ s[3] = "-"
    /\ \A i \in 4..6 : s[i] \in Digits

\* C10: validate_card_number of a number in the uniform format that is not
\* in the catalog returns (True, None).
C10_UniformNumberAccepted ==
    ( /\ last.op = "validate_card_number"
      /\ uniform_format(last.num)
      /\ get_card(last.num) = 0 )
    => (last.ret /\ last.msg = "None")
\* C16: add_card_note on a catalog card succeeds, creates the status row when
\* there is none, and changes nothing but the notes, which become the notes
\* stored before followed by a new line "[timestamp] text", or just
\* "[timestamp] text" when no notes were stored.
C16_NoteAppended ==
    [][\A c \in CardIds :
         (last'.op = "add_card_note" /\ cards[c].card_number = last'.num)
         => LET old == IF status[c] = <<>> THEN NewStatus ELSE status[c][1]
                line == <<"[", strftime_minute(last'.date), "]", " ">>
                           \o last'.notes[1]
            IN  /\ last'.ret
                /\ Len(status'[c]) = (IF status[c] = <<>> THEN 1
                                      ELSE Len(status[c]))
                /\ status'[c][1] =
                      [old EXCEPT !.notes =
                          IF Truthy(old.notes)
                          THEN Some(old.notes[1] \o <<"\n">> \o line)
                          ELSE Some(line)]
                /\ \A d \in CardIds \ {c} : status'[d] = status[d]]_vars

\* Two notes added one after the other: both texts are stored, in call
\* order, each behind its own timestamp.
C16_Witness ==
    /\ last.op = "add_card_note"
    /\ last.ret
    /\ \E t \in Times :
          status[get_card(last.num)][1].notes =
              Some(stamped(t, last.notes[1]) \o <<"\n">>
                     \o stamped(last.date, last.notes[1]))

\* C17: get_recent_acquisitions(limit) returns at most limit cards, all of
\* them collected, in descending order of date_acquired, and every collected
\* card when limit is at least the number of collected cards.
C17_RecentAcquisitions ==
    \A n \in LimitInputs : \A r \in get_recent_acquisitions(n) :
        /\ Len(r) <= n
        /\ \A k \in 1..Len(r) :
              status[r[k]] # <<>> /\ status[r[k]][1].is_collected
        /\ \A j \in 1..Len(r), k \in 1..Len(r) :
              j < k => status[r[j]][1].date_acquired
                          >= status[r[k]][1].date_acquired
        /\ n >= Cardinality({c \in CardIds : status[c] # <<>>
                                               /\ status[c][1].is_collected})
              => Range(r) = {c \in CardIds : status[c] # <<>>
                                               /\ status[c][1].is_collected}

\* Two cards collected on different dates and a card with an uncollected row:
\* the limit of one cuts the list to the later card.
C17_Witness ==
    /\ \E c \in CardIds : status[c] # <<>> /\ ~status[c][1].is_collected
    /\ \E c \in CardIds, d \in CardIds :
          /\ status[c] # <<>> /\ status[c][1].is_collected
          /\ status[d] # <<>> /\ status[d][1].is_collected
          /\ status[c][1].date_acquired > status[d][1].date_acquired
          /\ status[d][1].date_acquired # NoDate
          /\ get_recent_acquisitions(1) = {<<c>>}
          /\ get_recent_acquisitions(2) = {<<c, d>>}
\* C18: get_collection_stats reports a completion percentage of 0 for an
\* empty catalog, a percentage within 0..100, never more collected cards
\* than cards, and per-type counts that add up to total_collected.
C18_StatsConsistent ==
    LET stats == get_collection_stats IN
        /\ Len(cards) = 0 => stats.completion_percentage.num = 0
        /\ stats.total_collected <= stats.total_cards
        /\ 0 <= stats.completion_percentage.num
        /\ stats.completion_percentage.num
              <= 100 * stats.completion_percentage.den
        /\ stats.collected_by_type["CHARACTER"]
            + stats.collected_by_type["SUPPORT"]
            + stats.collected_by_type["GUARDIAN"]
            + stats.collected_by_type["SHIELD"] = stats.total_collected

\* Cards of two types collected, one card with an uncollected status row.
C18_Witness ==
    /\ get_collection_stats.collected_by_type["SHIELD"] = 1
    /\ get_collection_stats.collected_by_type["SUPPORT"] = 1
    /\ get_collection_stats.total_collected = 2
    /\ get_collection_stats.total_cards = 3
    /\ \A c \in CardIds : status[c] # <<>>

\* C19: get_cards_by_element(e) holds no support card, and
\* get_cards_by_element(e, include_support=True) holds the support cards of
\* the catalog besides the cards of element e.
C19_SupportIncluded ==
    \A e \in Elements :
        /\ \A c \in get_cards_by_element(e, FALSE) :
              cards[c].card_type # "SUPPORT"
        /\ get_cards_by_element(e, TRUE)
              = get_cards_by_element(e, FALSE)
                \cup {c \in CardIds : cards[c].card_type = "SUPPORT"}

\* C20: get_duplicate_entries returns its report and does not raise.
C20_DuplicatesNeverRaises == ~get_duplicate_entries.raised
\* C11: importing the document export_collection has just written, with the
\* strategy "skip", leaves is_collected, is_holo and acquisition of every
\* card as they were before the export.
C11_ExportImportRoundTrip ==
    [][( /\ last.op = "export_collection"
         /\ last.ret
         /\ last'.op = "import_collection"
         /\ last'.strategy = "skip"
         /\ last'.doc = last.doc )
       => \A c \in CardIds :
             /\ Len(status'[c]) = Len(status[c])
             /\ \A i \in 1..Len(status[c]) :
                   /\ status'[c][i].is_collected = status[c][i].is_collected
                   /\ status'[c][i].is_holo = status[c][i].is_holo
                   /\ status'[c][i].acquisition = status[c][i].acquisition]_vars

\* The exported document was imported back: it lists a holo card with an
\* acquisition and every entry was skipped, while another card is missing.
C11_Witness ==
    /\ last.op = "import_collection"
    /\ last.strategy = "skip"
    /\ last.doc = file
    /\ file \in {export_data(TRUE), export_data(FALSE)}
    /\ Len(file.cards) > 0
    /\ last.stats.skipped = Len(file.cards)
    /\ \E i \in 1..Len(file.cards) : file.cards[i].is_holo
    /\ \E i \in 1..Len(file.cards) : file.cards[i].acquisition # "None"
    /\ \E c \in CardIds : status[c] = <<>>

\* C12: import_collection of a document whose "cards" key is missing or
\* malformed returns all counters zero and leaves every status row as it
\* was, under every merge strategy.
C12_MalformedCardsKey ==
    [][( /\ last'.op = "import_collection"
         /\ last'.doc.top \in {"missing", "null"} )
       => /\ ~last'.ret
          /\ last'.stats = ZeroStats
          /\ status' = status]_vars

\* C13: import_collection with the strategy "skip" leaves the status rows of
\* every card that is already collected as they were and counts each entry
\* naming such a card as skipped; entries naming no catalog card are counted
\* as failed, and a card that no entry names is left as it was.
C13_SkipLeavesCollected ==
    [][( /\ last'.op = "import_collection"
         /\ last'.strategy = "skip"
         /\ last'.ret )
       => LET entries == last'.doc.cards
              card(i) == get_card(entries[i].card_number)
              was_collected(c) == status[c] # <<>> /\ status[c][1].is_collected
          IN  /\ \A c \in CardIds : was_collected(c) => status'[c] = status[c]
              /\ last'.stats.skipped =
                    Cardinality({i \in 1..Len(entries) :
                       /\ card(i) # 0
                       /\ \/ was_collected(card(i))
                          \/ \E j \in 1..(i - 1) : card(j) = card(i)})
              /\ last'.stats.failed >=
                    Cardinality({i \in 1..Len(entries) : card(i) = 0})
              /\ \A c \in CardIds :
                    (\A i \in 1..Len(entries) : card(i) # c)
                    => status'[c] = status[c]]_vars

\* One entry skipped, one failed, one imported; the collected card keeps the
\* acquisition the entry would have replaced.
C13_Witness ==
    /\ last.op = "import_collection"
    /\ last.strategy = "skip"
    /\ last.ret
    /\ last.stats = [imported |-> 1, skipped |-> 1, failed |-> 1, updated |-> 0]
    /\ status[1][1].acquisition = "PULLED"
    /\ status[2][1].is_collected

\* C14: an import_collection call that does not reach its commit leaves
\* every status row as it was, whatever the merge strategy.
C14_ImportAtomic ==
    [][(last'.op = "import_collection" /\ ~last'.ret)
       => status' = status]_vars

\* C15: backup_database returns False when one of its steps fails.
C15_BackupReportsFailure ==
    (last.op = "backup_database" /\ last.steps.failing # "none")
    => ~last.ret
\* C21: verify_database_integrity reports no character card that obeys the
\* game rules under constraint_violations: a box topper with no power level
\* and a regular card of level 8, 9 or 10 (holo when it is level 10 and has
\* a status) are not reported.
C21_RuleAbidingNotReported ==
    \A c \in constraint_violations :
        ~ IF cards[c].is_box_topper THEN cards[c].power_level = 0
          ELSE /\ cards[c].power_level \in {8, 9, 10}
               /\ (cards[c].power_level = 10 /\ status[c] # <<>>)
                     => status[c][1].is_holo

\* C23: after update_collection_status or record_trade has marked a card
\* with a PR- number as collected, the status of that card has is_promo and
\* is_holo set.
C23_PromoFlagsSet ==
    (last.op \in {"update_collection_status", "record_trade"} /\ last.ret)
    => \A c \in CardIds :
          ( /\ cards[c].card_number \in {last.num, last.num2}
            /\ SubSeq(cards[c].card_number, 1, 3) = <<"P", "R", "-">>
            /\ status[c] # <<>>
            /\ status[c][1].is_collected )
          => (status[c][1].is_promo /\ status[c][1].is_holo)

\* C24: the notes stored for a card before a manager operation are a prefix
\* of the notes stored for it afterwards.
C24_NotesAppendOnly ==
    [][\A c \in CardIds :
         (status[c] # <<>> /\ Truthy(status[c][1].notes))
         => /\ status'[c] # <<>>
            /\ Truthy(status'[c][1].notes)
            /\ Len(status'[c][1].notes[1]) >= Len(status[c][1].notes[1])
            /\ SubSeq(status'[c][1].notes[1], 1, Len(status[c][1].notes[1]))
                  = status[c][1].notes[1]]_vars

\* C30: get_filtered_cards(is_collected=False) returns the cards that
\* get_missing_cards returns.
C30_FilteredEqualsMissing == get_filtered_cards(FALSE) = get_missing_cards
\* C25: update_collection_status leaves is_promo, is_misprint and
\* date_acquired of an existing status as they were, and keeps a stored
\* is_holo = true when the call does not pass is_holo (the calls of the
\* model leave is_holo at its default).
C25_UnspecifiedAttributesKept ==
    [][\A c \in CardIds :
         ( /\ last'.op = "update_collection_status"
           /\ last'.ret
           /\ last'.holo \in HoloInputs
           /\ cards[c].card_number = last'.num
           /\ status[c] # <<>> )
         => /\ status'[c][1].is_promo = status[c][1].is_promo
            /\ status'[c][1].is_misprint = status[c][1].is_misprint
            /\ status'[c][1].date_acquired = status[c][1].date_acquired
            /\ status[c][1].is_holo => status'[c][1].is_holo]_vars

\* C28: for a document whose "cards" is a list of objects, the counters
\* import_collection returns add up to the number of entries.
C28_CountersAddUp ==
    ( /\ last.op = "import_collection"
      /\ last.doc.top = "list"
      /\ \A i \in 1..Len(last.doc.cards) : last.doc.cards[i].object )
    => last.stats.imported + last.stats.skipped + last.stats.updated
         + last.stats.failed = Len(last.doc.cards)

\* C29: a card named only by entries that fail on their date or acquisition
\* value has, after the import, the status rows it had when the loop over
\* the entries started.
C29_FailedEntryChangesNothing ==
    [][( /\ last'.op = "import_collection"
         /\ last'.ret )
       => \A c \in CardIds :
             ( /\ \E i \in 1..Len(last'.doc.cards) :
                     get_card(last'.doc.cards[i].card_number) = c
               /\ \A i \in 1..Len(last'.doc.cards) :
                     get_card(last'.doc.cards[i].card_number) = c
                     => \/ date_raises(last'.doc.cards[i])
                        \/ acquisition_raises(last'.doc.cards[i]) )
             => status'[c] = before_loop(last'.strategy)[c]]_vars
\* C22: constructing a CharacterCard with power level 10 and is_holo false
\* fails; no such object is constructed.
C22_Level10MustBeHolo ==
    (last.op = "CharacterCard" /\ last.power_level = 10 /\ ~last.is_holo)
    => (~last.ret /\ last.msg # "None")
\* C26: no operation other than import_collection with "replace" takes a
\* status row away: the set of cards that have a status row never shrinks
\* and no card loses one of its rows.
C26_RowsNeverDeleted ==
    [][~(last'.op = "import_collection" /\ last'.strategy = "replace")
       => \A c \in CardIds : Len(status'[c]) >= Len(status[c])]_vars

\* A card with a status row was marked not collected by a trade.
C26_Witness ==
    /\ last.op = "record_trade"
    /\ last.ret
    /\ \E c \in CardIds :
          /\ status[c] # <<>>
          /\ ~status[c][1].is_collected
          /\ status[c][1].acquisition = "PULLED"

\* C27: every card has at most one status row, and every status row belongs
\* to a card of the catalog.
C27_OneRowPerCard ==
    /\ DOMAIN status = CardIds
    /\ \A c \in CardIds : Len(status[c]) <= 1

\* An import with "update" wrote to the row a card already had.
C27_Witness ==
    /\ last.op = "import_collection"
    /\ last.strategy = "update"
    /\ last.ret
    /\ last.stats.updated = 1
    /\ \E c \in CardIds : status[c] # <<>> /\ status[c][1].is_misprint
====
